---- MODULE Spec2Model ----
(***************************************************************************)
(* Model of the scan terminal front-end: the RegistrarCaja view (three     *)
(* revisions are present in the sources), the PalletConfirmationModal, the *)
(* ScanProvider context, the submitScan/processScan endpoints and the      *)
(* retrying request executor of apiClient.                                 *)
(***************************************************************************)
EXTENDS Integers, Sequences, FiniteSets, TLC

\* ------------------------------------------------------------------------
\* Bounds of the model
\* ------------------------------------------------------------------------
MaxCalls == 3          \* processScan calls started in one behaviour of Spec
MaxFetches == 2        \* getPalletDetails calls started in one behaviour
MaxHistCalls == 22     \* processScan calls started in one behaviour of SpecHist
MaxCfgRetries == 4     \* largest config.retries a caller passes
MaxInputDigits == 16   \* most digits in an input given to the classifier

\* ------------------------------------------------------------------------
\* Program constants
\* ------------------------------------------------------------------------
BoxLen == 15
HistoryKeep == 19
DefaultRetries == 3
BackoffBaseMs == 1000

\* ------------------------------------------------------------------------
\* Codes are sequences of one-character strings
\* ------------------------------------------------------------------------
Rep(n, ch) == [i \in 1..n |-> ch]

Digits == {"0", "1", "2", "3", "4", "5", "6", "7", "8", "9"}

Whitespace == {" "}

Views == {"part_012", "part_013", "part_014"}

\* The views with the pallet confirmation modal
HasModal(v) == v \in {"part_012", "part_014"}

\* The validators revision each view was written against: 12-digit pallets
\* for part_014, 14-digit pallets for part_012 and part_013
PalletLen(v) == IF v = "part_014" THEN 12 ELSE 14

RECURSIVE trimStart(_)
trimStart(s) ==
  IF s # <<>> /\ Head(s) \in Whitespace THEN trimStart(Tail(s)) ELSE s

RECURSIVE trimEnd(_)
trimEnd(s) ==
  IF s # <<>> /\ s[Len(s)] \in Whitespace
  THEN trimEnd(SubSeq(s, 1, Len(s) - 1)) ELSE s

trim(s) == trimEnd(trimStart(s))

AllDigits(s) == \A i \in 1..Len(s) : s[i] \in Digits

isValidBoxCode(code) ==
  /\ code # <<>>
  /\ LET cleanCode == trim(code)
     IN Len(cleanCode) = BoxLen /\ AllDigits(cleanCode)

isValidPalletCode(code, v) ==
  /\ code # <<>>
  /\ LET cleanCode == trim(code)
     IN Len(cleanCode) = PalletLen(v) /\ AllDigits(cleanCode)

validateScannedCode(code, v) ==
  IF code = <<>>
  THEN [isValid |-> FALSE, type |-> "none", errorMessage |-> "required",
        lengthsNamed |-> {}]
  ELSE LET cleanCode == trim(code) IN
    IF Len(cleanCode) = 0
    THEN [isValid |-> FALSE, type |-> "none", errorMessage |-> "empty",
          lengthsNamed |-> {}]
    ELSE IF isValidBoxCode(cleanCode)
    THEN [isValid |-> TRUE, type |-> "box", errorMessage |-> "none",
          lengthsNamed |-> {}]
    ELSE IF isValidPalletCode(cleanCode, v)
    THEN [isValid |-> TRUE, type |-> "pallet", errorMessage |-> "none",
          lengthsNamed |-> {}]
    ELSE [isValid |-> FALSE, type |-> "none", errorMessage |-> "format",
          lengthsNamed |-> {BoxLen, PalletLen(v)}]

\* No input has been classified
NoValidation == [isValid |-> FALSE, type |-> "none", errorMessage |-> "idle",
                 lengthsNamed |-> {}]

\* ------------------------------------------------------------------------
\* Inputs
\* ------------------------------------------------------------------------
BoxCode == Rep(15, "1")
Pallet14 == Rep(14, "7")
Pallet12 == Rep(12, "7")
ShortCode == Rep(3, "5")

CodeInputs == {BoxCode, Pallet14, Pallet12, ShortCode}

\* ------------------------------------------------------------------------
\* Results of submitScan.  shape "typed" is the declared ProcessScanResult
\* {success, message, data: {codigo, timestamp, ...}}; shape "flat" is an
\* object without `success` and without a nested `data` (what processScan
\* builds for a pallet); "null" is no result.  seq is the position the result
\* takes in the order of insertion into the history.
\* ------------------------------------------------------------------------
NoResult == [codigo |-> <<>>, shape |-> "null", ts |-> 0, seq |-> 0]

\* result.data?.codigo and result.data?.timestamp ("undef" / 0 when absent)
DataCodigo(r) == IF r.shape = "typed" THEN r.codigo ELSE <<"undef">>
DataTimestamp(r) == IF r.shape = "typed" THEN r.ts ELSE 0

\* data && data.success
DataSuccess(r) == r.shape = "typed"

\* data && data.codigo
DataHasCodigo(r) == r.shape = "flat"

\* ------------------------------------------------------------------------
\* processResponse.  A response is its `ok` flag and its body; a body is
\* described by what the content type and the parser make of it (fmt) and,
\* for a JSON object, by the fields processResponse looks at:
\*   status  : absent, one of the three strings of the unified format, another
\*             string, or a value that is not a string
\*   success : absent, true or false
\*   error   : absent, a string, or an object that is empty, has only a code,
\*             only a message, or both
\*   message, data, meta : present or not
\* ------------------------------------------------------------------------
StatusValues == {"absent", "success", "fail", "error", "other", "nonstring"}
SuccessValues == {"absent", "true", "false"}
ErrorValues == {"absent", "string", "empty", "codeonly", "message", "full"}

\*   messageHasError : the top-level message contains the text "Error "
NoFields == [status |-> "absent", success |-> "absent", error |-> "absent",
             message |-> FALSE, messageHasError |-> FALSE, data |-> FALSE,
             meta |-> FALSE]

ObjectBodies ==
  {b \in [fmt : {"object"}, status : StatusValues, success : SuccessValues,
          error : ErrorValues, message : BOOLEAN, messageHasError : BOOLEAN,
          data : BOOLEAN, meta : BOOLEAN] :
     b.messageHasError => b.message}

\* response.status: the success status and the error statuses, of which
\* processResponse describes 404, 405, 500 and 503
HttpStatuses == {200, 400, 404, 405, 500, 503}
DescribedStatuses == {404, 405, 500, 503}

\* A body that is not JSON (response.text()) and a JSON body on which
\* response.json() rejects
TextBody == NoFields @@ [fmt |-> "text"]
UnparseableBody == NoFields @@ [fmt |-> "unparseable"]

\* typeof responseData.error === 'object' for a value that is not null
ErrorIsObject(b) == b.error \in {"empty", "codeonly", "message", "full"}
\* responseData.error.message and responseData.error.code are truthy
ErrorHasMessage(b) == b.error \in {"message", "full"}
ErrorHasCode(b) == b.error \in {"codeonly", "full"}

\* responseData.data of the returned envelope
DataOf(b) == IF b.data THEN "body.data" ELSE "undefined"

\* throw new ApiClientError(message, code, details)
Throw(from, message, code) ==
  [kind |-> "throw", from |-> from, value |-> "none", success |-> "absent",
   data |-> "undefined", message |-> message, code |-> code]

\* return { success: true, data, message }
Envelope(from, payload) ==
  [kind |-> "return", from |-> from, value |-> "envelope", success |-> "true",
   data |-> payload, message |-> "none", code |-> "none"]

\* return data as ApiResponse<T>: the parsed body itself is the result
AsIs(from, b) ==
  [kind |-> "return", from |-> from, value |-> "body",
   success |-> (IF b.fmt = "object" THEN b.success ELSE "absent"),
   data |-> (IF b.fmt = "object" THEN DataOf(b) ELSE "undefined"),
   message |-> "none", code |-> "none"]

\* errorInfo.message || responseData.message || default
MessageOr(b, default) ==
  IF ErrorHasMessage(b) THEN "error.message"
  ELSE IF b.message THEN "body.message" ELSE default

\* errorInfo.code || response.status
CodeOr(b) == IF ErrorHasCode(b) THEN "error.code" ELSE "response.status"

\* if ('status' in responseData && typeof responseData.status === 'string')
\* returns or throws for the three statuses and falls through for any other
UnifiedApplies(b) == b.status \in {"success", "fail", "error"}

UnifiedOutcome(b) ==
  IF b.status \in {"fail", "error"}
  THEN Throw("unified", MessageOr(b, "Error desconocido"), CodeOr(b))
  ELSE Envelope("unified", DataOf(b))

\* if ('success' in responseData || ('error' in responseData && typeof
\* responseData.error === 'object') || 'meta' in responseData)
IsLegacy(b) == b.success # "absent" \/ ErrorIsObject(b) \/ b.meta

LegacyOutcome(b) ==
  IF ErrorIsObject(b) /\ ErrorHasMessage(b)
  THEN Throw("legacy", "error.message", CodeOr(b))
  ELSE IF b.success = "false"
  THEN Throw("legacy", MessageOr(b, "Operacion fallida"), CodeOr(b))
  ELSE Envelope("legacy", DataOf(b))

\* if (!response.ok)
\* if (errorMessage.includes('Error ')) switch (response.status): the generic
\* `Error ${status}: ${statusText}` and a body message with that text give way
\* to the description of the status
DescribeStatus(response, message) ==
  LET b == response.body
      hasError == \/ message = "Error N"
                  \/ message = "body.message" /\ b.messageHasError
  IN IF hasError /\ response.http \in DescribedStatuses
     THEN "status description" ELSE message

HttpErrorOutcome(response) ==
  LET b == response.body IN
  IF b.fmt = "object" /\ ErrorIsObject(b)
  THEN Throw("http", DescribeStatus(response, MessageOr(b, "Error N")),
             CodeOr(b))
  ELSE IF b.fmt = "object" /\ b.message
  THEN Throw("http", DescribeStatus(response, "body.message"),
             "response.status")
  ELSE Throw("http", DescribeStatus(response, "Error N"), "response.status")

\* Successful responses that don't follow the Lambda format
PassthroughOutcome(b) ==
  IF b.fmt = "object"
  THEN (IF b.success # "absent" \/ b.data
        THEN AsIs("passthrough", b)
        ELSE Envelope("passthrough", "body"))
  ELSE AsIs("passthrough", b)

\* The legacy block tried before the unified one
processResponse_legacyFirst(response) ==
  LET b == response.body IN
  IF b.fmt = "unparseable" THEN Throw("parse", "parse", "PARSE_ERROR")
  ELSE IF b.fmt = "object" /\ IsLegacy(b) THEN LegacyOutcome(b)
  ELSE IF b.fmt = "object" /\ UnifiedApplies(b) THEN UnifiedOutcome(b)
  ELSE IF ~response.ok THEN HttpErrorOutcome(response)
  ELSE PassthroughOutcome(b)

processResponse(response) ==
  LET b == response.body IN
  IF b.fmt = "unparseable" THEN Throw("parse", "parse", "PARSE_ERROR")
  ELSE IF b.fmt = "object" /\ UnifiedApplies(b) THEN UnifiedOutcome(b)
  ELSE IF b.fmt = "object" /\ IsLegacy(b) THEN LegacyOutcome(b)
  ELSE IF ~response.ok THEN HttpErrorOutcome(response)
  ELSE PassthroughOutcome(b)

\* No response is under evaluation
NoResponse == [ok |-> TRUE, http |-> 200, body |-> NoFields @@ [fmt |-> "none"]]
NoOutcome == [Throw("none", "none", "none") EXCEPT !.kind = "idle"]

\* The bodies the request executor is run against, one of each kind
BodyOf(kind) ==
  CASE kind = "success" ->
         [NoFields EXCEPT !.status = "success", !.data = TRUE] @@ [fmt |-> "object"]
    [] kind = "structured_error" ->
         [NoFields EXCEPT !.status = "error", !.error = "full"] @@ [fmt |-> "object"]
    [] kind = "plain" -> NoFields @@ [fmt |-> "object"]
    [] kind = "stalled" -> NoFields @@ [fmt |-> "object"]
    [] OTHER -> UnparseableBody

\* ------------------------------------------------------------------------
\* utils/errorMessages.ts: translateError
\* ------------------------------------------------------------------------
\* Keys of ERROR_TRANSLATIONS in the order of the object literal, which is
\* the order Object.entries walks
GeneralKeys ==
  <<"NETWORK_ERROR", "TIMEOUT_ERROR", "PARSE_ERROR", "VALIDATION_ERROR",
    "INVALID_BOX_CODE", "INVALID_PALLET_CODE", "INVALID_LOCATION",
    "INVALID_CALIBRE", "BOX_COUNT_EXCEEDED", "EGGS_EXCEEDED",
    "EGGS_INCOMPLETE", "NO_REQUESTED_CALIBRES", "SALE_NOT_DRAFT",
    "Box code must be 16 digits", "Invalid box code: must be 16 digits",
    "Invalid pallet code: must be 14 digits", "NOT_FOUND", "BOX_NOT_FOUND",
    "PALLET_NOT_FOUND", "CUSTOMER_NOT_FOUND", "SALE_NOT_FOUND",
    "BOX_NOT_IN_SALE", "PALLET_NOT_IN_SALE", "Box not found",
    "Pallet not found", "no fue encontrada", "no fue encontrado", "CONFLICT",
    "BOX_ALREADY_EXISTS", "BOX_ALREADY_IN_SALE", "PALLET_ALREADY_IN_SALE",
    "CUSTOMER_ALREADY_EXISTS", "BOX_NOT_IN_BODEGA", "PALLET_NOT_IN_BODEGA",
    "PALLET_NO_BOXES_IN_BODEGA", "Box with code", "Invalid location",
    "Cannot move", "INTERNAL_ERROR", "DATABASE_ERROR", "SERVICE_UNAVAILABLE",
    "RATE_LIMIT_EXCEEDED", "THROTTLING_ERROR", "ResourceNotFoundException",
    "ConditionalCheckFailedException", "ThrottlingException">>

\* Keys of CONTEXT_ERROR_MESSAGES[context]; the empty table stands for a
\* context that has none
ContextKeys(context) ==
  CASE context \in {"scan", "move"} -> <<"NOT_FOUND", "VALIDATION_ERROR">>
    [] context = "create" -> <<"CONFLICT", "VALIDATION_ERROR">>
    [] context = "dispatch" ->
         <<"SALE_NOT_DRAFT", "NO_REQUESTED_CALIBRES", "BOX_ALREADY_IN_SALE",
           "PALLET_ALREADY_IN_SALE", "BOX_NOT_IN_BODEGA",
           "PALLET_NOT_IN_BODEGA", "PALLET_NO_BOXES_IN_BODEGA",
           "INVALID_CALIBRE", "BOX_COUNT_EXCEEDED", "EGGS_INCOMPLETE",
           "BOX_NOT_IN_SALE", "PALLET_NOT_IN_SALE">>
    [] OTHER -> <<>>

InTable(keys, key) == \E i \in 1..Len(keys) : keys[i] = key

\* translation.message of an entry; the entries the modelled errors reach
\* carry their text (without diacritics), any other is named by its key
EntryMessage(table, key) ==
  CASE table = "scan" /\ key = "NOT_FOUND" -> "Codigo no encontrado"
    [] table = "scan" /\ key = "VALIDATION_ERROR" -> "Codigo invalido"
    [] table = "move" /\ key = "NOT_FOUND" ->
         "No se puede mover: el codigo no existe"
    [] table = "move" /\ key = "VALIDATION_ERROR" ->
         "No se puede mover: ubicacion invalida"
    [] table = "create" /\ key = "CONFLICT" -> "El codigo ya existe"
    [] table = "create" /\ key = "VALIDATION_ERROR" -> "Datos invalidos"
    [] table = "dispatch" /\ key = "SALE_NOT_DRAFT" ->
         "La venta no se puede modificar"
    [] table = "general" /\ key = "VALIDATION_ERROR" -> "Error de validacion"
    [] table = "general" /\ key = "SALE_NOT_DRAFT" ->
         "La venta no se puede modificar"
    [] table = "general" /\ key = "NOT_FOUND" -> "No encontrado"
    [] table = "general" /\ key = "BOX_NOT_FOUND" ->
         "La caja no fue encontrada en el sistema"
    [] table = "general" /\ key = "Box not found" -> "Caja no encontrada"
    [] table = "general" /\ key = "no fue encontrada" ->
         "El codigo no fue encontrado en el sistema"
    [] table = "general" /\ key = "CONFLICT" -> "Conflicto en la operacion"
    [] table = "general" /\ key = "ResourceNotFoundException" ->
         "Recurso no encontrado"
    [] OTHER -> key

\* translation.suggestion of an entry, named by the entry; the backend's is
\* [from |-> "backend"], the two of the default branches [from |-> "default"]
EntrySuggestion(table, key) == [from |-> table, key |-> key]

\* Raw messages an error carries: what the backend and the client write;
\* "<404>" stands for a message field that is not a string, { message: 404 }
RawMessages ==
  {"", "NOT_FOUND: item 1", "Box not found: 1", "La caja no fue encontrada",
   "Ubicacion sin stock", "Error: conexion rechazada",
   "Error 502: Bad Gateway", "Error 502: ", "Request failed",
   "ResourceNotFoundException: Requested resource not found",
   "NullPointerException at Handler.java:42"}

\* errorMessage.includes(pattern) || errorMessage === pattern
Includes(message, pattern) ==
  <<message, pattern>> \in
    {<<"NOT_FOUND: item 1", "NOT_FOUND">>,
     <<"Box not found: 1", "Box not found">>,
     <<"La caja no fue encontrada", "no fue encontrada">>,
     <<"ResourceNotFoundException: Requested resource not found",
       "ResourceNotFoundException">>}

\* /[áéíóúñüÁÉÍÓÚÑÜ]/.test(errorMessage): the messages written here without
\* their diacritics
isSpanishMessage(message) ==
  message \in {"La caja no fue encontrada", "Ubicacion sin stock",
               "Error: conexion rechazada"}

\* includes('Exception') || includes('Error:') || includes('code:') ||
\* startsWith('Error ')
isTechnicalMessage(message) ==
  message \in {"Error: conexion rechazada", "Error 502: Bad Gateway",
               "Error 502: ",
               "ResourceNotFoundException: Requested resource not found",
               "NullPointerException at Handler.java:42"}

\* replace(/^Error \d+: /, '').replace(/^\[.*?\] /, '')
\* .replace(/Error:/g, '').trim()
StripPrefixes(message) ==
  CASE message = "Error: conexion rechazada" -> "conexion rechazada"
    [] message = "Error 502: Bad Gateway" -> "Bad Gateway"
    [] message = "Error 502: " -> ""
    [] OTHER -> message

\* if (friendlyMessage.includes('Exception') || includes('Error:'))
\* friendlyMessage = `Error: ${friendlyMessage}`
friendlyMessage(message) ==
  LET stripped == StripPrefixes(message) IN
  CASE stripped = "NullPointerException at Handler.java:42" ->
         "Error: NullPointerException at Handler.java:42"
    [] stripped = "ResourceNotFoundException: Requested resource not found" ->
         "Error: ResourceNotFoundException: Requested resource not found"
    [] OTHER -> stripped

\* The forms of the error argument
ErrorCodes ==
  {"", "NOT_FOUND", "BOX_NOT_FOUND", "VALIDATION_ERROR", "SALE_NOT_DRAFT",
   "CONFLICT", "HTTP_502"}

\* An ApiClientError or Error carries the suggestion in details.suggestion; a
\* plain object in suggestion or details.suggestion; a unified error object
\* in error.suggestion, next to error.code and error.message
ErrorArguments ==
  [form : {"Error"}, message : RawMessages, code : ErrorCodes,
   suggestionAt : {"none", "details.suggestion"}]
  \cup
  [form : {"string"}, message : RawMessages, code : {""},
   suggestionAt : {"none"}]
  \cup
  [form : {"object"}, message : RawMessages \cup {"<404>"},
   code : ErrorCodes,
   suggestionAt : {"none", "suggestion", "details.suggestion"}]
  \cup
  [form : {"unified"}, message : RawMessages \cup {"<404>"},
   code : ErrorCodes, suggestionAt : {"none", "error.suggestion"}]
  \cup
  [form : {"nullish"}, message : {""}, code : {""}, suggestionAt : {"none"}]

\* error.message, (error as any).message || (error as any).error?.message
ExtractMessage(e) == IF e.form = "nullish" THEN "" ELSE e.message

\* (error as any).code || (error as any).error?.code || ''
ExtractCode(e) == IF e.form \in {"string", "nullish"} THEN "" ELSE e.code

\* details.suggestion of an Error; suggestion || error?.suggestion ||
\* details?.suggestion of an object
ExtractSuggestion(e) ==
  CASE e.form = "Error" -> e.suggestionAt = "details.suggestion"
    [] e.form \in {"object", "unified"} -> e.suggestionAt # "none"
    [] OTHER -> FALSE

\* The first entry of the table whose key the message includes
FirstPattern(keys, message) ==
  LET hits == {i \in 1..Len(keys) : Includes(message, keys[i])} IN
  IF hits = {} THEN ""
  ELSE keys[CHOOSE i \in hits : \A j \in hits : i <= j]

Translation(rule, message, suggestion) ==
  [kind |-> "return", rule |-> rule, message |-> message,
   suggestion |-> suggestion]

\* errorMessage.includes of a value that is not a string
TypeError == [kind |-> "throw", rule |-> 0, message |-> "TypeError",
              suggestion |-> [from |-> "none", key |-> "none"]]
NoTranslation == [kind |-> "idle", rule |-> 0, message |-> "",
                  suggestion |-> [from |-> "none", key |-> "none"]]
NoError == [form |-> "none", message |-> "", code |-> "",
            suggestionAt |-> "none"]

\* suggestion: translation.suggestion || backendSuggestion
Suggest_localFirst(backend, local) == local

\* suggestion: backendSuggestion || translation.suggestion
Suggest(backend, local) ==
  IF backend THEN [from |-> "backend", key |-> "suggestion"] ELSE local

\* The default branches, from `if (errorMessage)` on
DefaultTranslation(message, backend) ==
  IF message = "" THEN
    Translation(7, "Ocurrio un error inesperado",
                Suggest(backend, [from |-> "default", key |-> "retry"]))
  ELSE IF isSpanishMessage(message) /\ ~isTechnicalMessage(message) THEN
    Translation(5, message,
                Suggest(backend, [from |-> "default", key |-> "contact"]))
  ELSE
    Translation(6, friendlyMessage(message),
                Suggest(backend, [from |-> "default", key |-> "contact"]))

\* The general table, by code and then by pattern
GeneralTranslation(message, code, backend) ==
  IF code # "" /\ InTable(GeneralKeys, code) THEN
    Translation(3, EntryMessage("general", code),
                Suggest(backend, EntrySuggestion("general", code)))
  ELSE IF message = "<404>" THEN TypeError
  ELSE IF FirstPattern(GeneralKeys, message) # "" THEN
    LET key == FirstPattern(GeneralKeys, message) IN
    Translation(4, EntryMessage("general", key),
                Suggest(backend, EntrySuggestion("general", key)))
  ELSE DefaultTranslation(message, backend)

\* The general table by code tried before the patterns of the context table
translateError_generalCodeFirst(error, context) ==
  LET message == ExtractMessage(error)
      code == ExtractCode(error)
      backend == ExtractSuggestion(error)
      keys == ContextKeys(context)
  IN
  IF keys # <<>> /\ code # "" /\ InTable(keys, code) THEN
    Translation(1, EntryMessage(context, code),
                Suggest(backend, EntrySuggestion(context, code)))
  ELSE IF code # "" /\ InTable(GeneralKeys, code) THEN
    GeneralTranslation(message, code, backend)
  ELSE IF keys # <<>> /\ message = "<404>" THEN TypeError
  ELSE IF keys # <<>> /\ FirstPattern(keys, message) # "" THEN
    LET key == FirstPattern(keys, message) IN
    Translation(2, EntryMessage(context, key),
                Suggest(backend, EntrySuggestion(context, key)))
  ELSE GeneralTranslation(message, code, backend)

translateError(error, context) ==
  LET message == ExtractMessage(error)
      code == ExtractCode(error)
      backend == ExtractSuggestion(error)
      keys == ContextKeys(context)
  IN
  IF keys # <<>> /\ code # "" /\ InTable(keys, code) THEN
    Translation(1, EntryMessage(context, code),
                Suggest(backend, EntrySuggestion(context, code)))
  ELSE IF keys # <<>> /\ message = "<404>" THEN TypeError
  ELSE IF keys # <<>> /\ FirstPattern(keys, message) # "" THEN
    LET key == FirstPattern(keys, message) IN
    Translation(2, EntryMessage(context, key),
                Suggest(backend, EntrySuggestion(context, key)))
  ELSE GeneralTranslation(message, code, backend)

VARIABLES
  view, codigo, isProcessing, showPalletModal, showReportModal,
  pendingPalletCode, reportReason, formSubmitQueued, effectDue, timer,
  mDetails, mError, mFetch, mStarted,
  data, loading, error, history, calls, nextId, applied,
  confirms, palletMoves, palletSucceeded,
  rqPc, rqCfg, rqRetries, rqTrace, rqDelays, rqThrown, rqTimer,
  clInput, clResult, nrResponse, nrResult,
  trError, trContext, trResult, mkEnv, mkCall

uiVars == <<codigo, isProcessing, showPalletModal, showReportModal,
            pendingPalletCode, reportReason, formSubmitQueued, effectDue,
            timer>>
modalVars == <<mDetails, mError, mFetch, mStarted>>
ctxVars == <<data, loading, error, history, calls, nextId, applied>>
ghostVars == <<confirms, palletMoves, palletSucceeded>>
rqVars == <<rqPc, rqCfg, rqRetries, rqTrace, rqDelays, rqThrown, rqTimer>>
pureVars == <<clInput, clResult, nrResponse, nrResult, trError, trContext,
              trResult, mkEnv, mkCall>>
vars == <<view, uiVars, modalVars, ctxVars, ghostVars, rqVars, pureVars>>


\* ------------------------------------------------------------------------
\* endpoints.processScan: the endpoint is chosen from the raw code length
\* ------------------------------------------------------------------------
ScanType(scanCodigo) == IF Len(scanCodigo) = BoxLen THEN "box" ELSE "pallet"

IsBlankLocation(u) == u \in {"", " "}

Min(a, b) == IF a < b THEN a ELSE b

\* ------------------------------------------------------------------------
\* ScanProvider (ScanContext.tsx)
\* ------------------------------------------------------------------------
\* setHistory without the slice: the history grows without limit
PushHistory_noLimit(prev, result) ==
  LET exists == \E i \in 1..Len(prev) :
                   /\ DataCodigo(prev[i]) = DataCodigo(result)
                   /\ DataTimestamp(prev[i]) = DataTimestamp(result)
  IN IF exists THEN prev ELSE <<result>> \o prev

\* setHistory(prev => ...) of processScan
PushHistory(prev, result) ==
  LET exists == \E i \in 1..Len(prev) :
                   /\ DataCodigo(prev[i]) = DataCodigo(result)
                   /\ DataTimestamp(prev[i]) = DataTimestamp(result)
  IN IF exists THEN prev
     ELSE <<result>> \o SubSeq(prev, 1, Min(Len(prev), HistoryKeep))

NewCall(request, origin) ==
  [id |-> nextId, codigo |-> request.codigo, type |-> ScanType(request.codigo),
   ubicacion |-> request.ubicacion, origin |-> origin, cur |-> (origin = "confirm"), stale |-> FALSE]

\* processScan up to its first await: the input checks, setLoading(true),
\* setError(null) and the call of submitScan, which posts the request
CtxProcessScan(request, origin, cap) ==
  /\ UNCHANGED <<data, history, applied>>
  /\ IF trim(request.codigo) = <<>>
     THEN /\ error' = "El codigo es requerido"
          /\ UNCHANGED <<loading, calls, nextId>>
     ELSE IF IsBlankLocation(request.ubicacion)
     THEN /\ error' = "La ubicacion es requerida"
          /\ UNCHANGED <<loading, calls, nextId>>
     ELSE /\ nextId <= cap
          /\ loading' = TRUE
          /\ error' = "none"
          /\ calls' = calls \cup {NewCall(request, origin)}
          /\ nextId' = nextId + 1

\* The results submitScan can resolve with for a call: a pallet goes through
\* the adapter of endpoints.processScan (flat object); for a box the payload
\* of the backend is returned as it is.  The timestamp of a typed payload is
\* a new one or that of the most recent entry of the history (a replay)
Timestamps ==
  {applied + 1} \cup
  (IF history # <<>> /\ history[1].shape = "typed" THEN {history[1].ts} ELSE {})

ResultsOf(c) ==
  IF c.type = "pallet"
  THEN {[codigo |-> c.codigo, shape |-> "flat", ts |-> 0, seq |-> applied + 1]}
  ELSE {[codigo |-> c.codigo, shape |-> "flat", ts |-> 0, seq |-> applied + 1]}
       \cup {[codigo |-> c.codigo, shape |-> "typed", ts |-> t,
              seq |-> applied + 1] : t \in Timestamps}

\* catch (error): the message shown for a rejection of submitScan
ErrorMessageOf(thrown) ==
  IF thrown = "ApiClientError" THEN "api message"
  ELSE "Error desconocido al procesar el escaneo"

Thrown == {"ApiClientError", "TypeError"}

\* reset()
CtxReset ==
  /\ data' = NoResult
  /\ loading' = FALSE
  /\ error' = "none"
  /\ calls' = {[c EXCEPT !.stale = TRUE] : c \in calls}
  /\ UNCHANGED <<history, nextId, applied>>

\* ------------------------------------------------------------------------
\* RegistrarCaja and PalletConfirmationModal
\* ------------------------------------------------------------------------
\* handleSubmit without the pallet branch: every valid code is processed
RequiresConfirmation_never(v, type) == FALSE

\* if (validation.type === 'pallet') of handleSubmit: the views with the
\* modal ask for confirmation, part_013 processes pallets directly
RequiresConfirmation(v, type) == HasModal(v) /\ type = "pallet"

\* useEffect of the modal on [isOpen, palletCode]: fetchPalletDetails()
FetchPalletDetails ==
  /\ mStarted < MaxFetches
  /\ mStarted' = mStarted + 1
  /\ mFetch' = mFetch + 1
  /\ mError' = FALSE
  /\ UNCHANGED mDetails

\* handleConfirm that leaves the modal open with the pallet pending
ModalHandleClose_keepOpen ==
  UNCHANGED <<mDetails, mError, showPalletModal, pendingPalletCode, codigo>>

\* handlePalletModalClose without setPendingPalletCode('')
ModalHandleClose_keepPending ==
  /\ mDetails' = FALSE
  /\ mError' = FALSE
  /\ showPalletModal' = FALSE
  /\ codigo' = <<>>
  /\ UNCHANGED pendingPalletCode

\* handleClose of the modal followed by handlePalletModalClose
ModalHandleClose ==
  /\ mDetails' = FALSE
  /\ mError' = FALSE
  /\ showPalletModal' = FALSE
  /\ pendingPalletCode' = <<>>
  /\ codigo' = <<>>

\* The effect of part_012 depends on showPalletModal as well as on data
EffectAfter(modalChanged, dataChanged) ==
  IF HasModal(view) /\ (dataChanged \/ (view = "part_012" /\ modalChanged))
  THEN TRUE ELSE effectDue

\* handleSubmit: the body run by the Enter key handler and by onSubmit
HandleSubmit ==
  LET validation == validateScannedCode(codigo, view)
      request == [codigo |-> trim(codigo), ubicacion |-> "BODEGA"]
  IN
  IF \/ trim(codigo) = <<>>
     \/ ~validation.isValid
     \/ (view = "part_013" /\ (isProcessing \/ loading))
  THEN UNCHANGED <<codigo, isProcessing, showPalletModal, showReportModal,
                   pendingPalletCode, reportReason, effectDue, timer,
                   modalVars, ctxVars, ghostVars>>
  ELSE IF RequiresConfirmation(view, validation.type)
  THEN /\ pendingPalletCode' = trim(codigo)
       /\ showPalletModal' = TRUE
       /\ IF ~showPalletModal \/ pendingPalletCode # trim(codigo)
          THEN FetchPalletDetails
          ELSE UNCHANGED modalVars
       /\ effectDue' = EffectAfter(~showPalletModal, FALSE)
       /\ confirms' = 0
       /\ palletMoves' = 0
       /\ palletSucceeded' = FALSE
       /\ calls' = {[c EXCEPT !.cur = FALSE] : c \in calls}
       /\ UNCHANGED <<codigo, isProcessing, showReportModal, reportReason,
                      timer, data, loading, error, history, nextId, applied>>
  ELSE /\ CtxProcessScan(request, "submit", MaxCalls)
       /\ isProcessing' = (IF view = "part_013" THEN TRUE ELSE isProcessing)
       /\ UNCHANGED <<codigo, showPalletModal, showReportModal,
                      pendingPalletCode, reportReason, effectDue, timer,
                      modalVars, ghostVars>>

\* No handler runs between a render and its effects, nor between the Enter
\* key press and the form submission it triggers
Quiet == ~effectDue /\ ~formSubmitQueued

\* onChange of the input and the test-code buttons (disabled while loading)
TypeCodigo(c) ==
  /\ Quiet /\ ~loading
  /\ codigo # c
  /\ codigo' = c
  /\ UNCHANGED <<view, isProcessing, showPalletModal, showReportModal,
                 pendingPalletCode, reportReason, formSubmitQueued, effectDue,
                 timer, modalVars, ctxVars, ghostVars, rqVars, pureVars>>

\* handleKeyPress with Enter; only part_013 calls e.preventDefault(), in the
\* other views the form submission follows
KeyPressEnter ==
  /\ Quiet /\ ~loading
  /\ HandleSubmit
  /\ formSubmitQueued' = (view # "part_013")
  /\ UNCHANGED <<view, rqVars, pureVars>>

\* onSubmit of the form
FormSubmit ==
  /\ formSubmitQueued /\ ~effectDue
  /\ HandleSubmit
  /\ formSubmitQueued' = FALSE
  /\ UNCHANGED <<view, rqVars, pureVars>>

\* getPalletDetails settles: setPalletDetails(response.data) or setError(...)
DetailsArrive(ok) ==
  /\ Quiet
  /\ mFetch > 0
  /\ mFetch' = mFetch - 1
  /\ IF ok THEN mDetails' = TRUE /\ UNCHANGED mError
     ELSE mError' = TRUE /\ UNCHANGED mDetails
  /\ UNCHANGED <<view, uiVars, mStarted, ctxVars, ghostVars, rqVars, pureVars>>

\* The "Reintentar" button of the modal
RetryDetails ==
  /\ Quiet
  /\ showPalletModal /\ mError
  /\ FetchPalletDetails
  /\ UNCHANGED <<view, uiVars, ctxVars, ghostVars, rqVars, pureVars>>

\* handleConfirm of the modal: onConfirm() (handlePalletConfirm up to its
\* await) and then handleClose()
ModalConfirm ==
  LET request == [codigo |-> pendingPalletCode, ubicacion |-> "BODEGA"]
  IN
  /\ Quiet
  /\ showPalletModal /\ mDetails
  /\ CtxProcessScan(request, "confirm", MaxCalls)
  /\ ModalHandleClose
  /\ effectDue' = EffectAfter(TRUE, FALSE)
  /\ confirms' = confirms + 1
  /\ palletMoves' = palletMoves + (nextId' - nextId)
  /\ UNCHANGED <<view, isProcessing, showReportModal, reportReason,
                 formSubmitQueued, timer, mFetch, mStarted, palletSucceeded,
                 rqVars, pureVars>>

ReportReasons == {"Numero de cajas no coincide", "Cajas danadas"}

\* handleReportIssue of the modal: onReportIssue(reason), then handleClose()
ModalReportIssue(reason) ==
  /\ Quiet
  /\ showPalletModal /\ mDetails
  /\ reportReason' = reason
  /\ showReportModal' = TRUE
  /\ ModalHandleClose
  /\ effectDue' = EffectAfter(TRUE, FALSE)
  /\ UNCHANGED <<view, isProcessing, formSubmitQueued, timer, mFetch,
                 mStarted, ctxVars, ghostVars, rqVars, pureVars>>

\* The close button / onClose of the modal
ModalClose ==
  /\ Quiet
  /\ showPalletModal
  /\ ModalHandleClose
  /\ effectDue' = EffectAfter(TRUE, FALSE)
  /\ UNCHANGED <<view, isProcessing, showReportModal, reportReason,
                 formSubmitQueued, timer, mFetch, mStarted, ctxVars,
                 ghostVars, rqVars, pureVars>>

\* handleReportModalClose
ReportModalClose ==
  /\ Quiet
  /\ showReportModal
  /\ showReportModal' = FALSE
  /\ reportReason' = ""
  /\ pendingPalletCode' = <<>>
  /\ codigo' = <<>>
  /\ UNCHANGED <<view, isProcessing, showPalletModal, formSubmitQueued,
                 effectDue, timer, modalVars, ctxVars, ghostVars, rqVars, pureVars>>

\* The buttons that call reset(): the close button of the error banner, and
\* in part_013 the close button of the success notification
ResetVisible ==
  \/ error # "none"
  \/ (view = "part_013" /\ DataHasCodigo(data))

Reset ==
  /\ Quiet
  /\ ResetVisible
  /\ CtxReset
  /\ effectDue' = EffectAfter(FALSE, data # NoResult)
  /\ UNCHANGED <<view, codigo, isProcessing, showPalletModal, showReportModal,
                 pendingPalletCode, reportReason, formSubmitQueued, timer,
                 modalVars, ghostVars, rqVars, pureVars>>

\* What the views do after `await processScan(...)` returns: part_013 clears
\* the input and isProcessing, handlePalletConfirm of part_014 clears the
\* pending pallet
AfterAwait(c) ==
  /\ codigo' = (IF view = "part_013" THEN <<>> ELSE codigo)
  /\ isProcessing' = (IF view = "part_013" THEN FALSE ELSE isProcessing)
  /\ IF view = "part_014" /\ c.origin = "confirm"
     THEN pendingPalletCode' = <<>> /\ showPalletModal' = FALSE
     ELSE UNCHANGED <<pendingPalletCode, showPalletModal>>

\* submitScan resolves: setData, setHistory, finally setLoading(false)
ResolveOk(c, result) ==
  /\ Quiet
  /\ c \in calls
  /\ result \in ResultsOf(c)
  /\ data' = result
  /\ history' = PushHistory(history, result)
  /\ loading' = FALSE
  /\ calls' = calls \ {c}
  /\ applied' = applied + (IF history' # history THEN 1 ELSE 0)
  /\ AfterAwait(c)
  /\ effectDue' = EffectAfter(FALSE, TRUE)
  /\ palletSucceeded' = (palletSucceeded \/ (c.cur /\ c.origin = "confirm"))
  /\ UNCHANGED <<view, showReportModal, reportReason, formSubmitQueued, timer,
                 modalVars, error, nextId, confirms, palletMoves, rqVars, pureVars>>

\* submitScan rejects: setError, setData(null), finally setLoading(false)
ResolveFail(c, thrown) ==
  /\ Quiet
  /\ c \in calls
  /\ error' = ErrorMessageOf(thrown)
  /\ data' = NoResult
  /\ loading' = FALSE
  /\ calls' = calls \ {c}
  /\ AfterAwait(c)
  /\ effectDue' = EffectAfter(FALSE, data # NoResult)
  /\ UNCHANGED <<view, showReportModal, reportReason, formSubmitQueued, timer,
                 modalVars, history, nextId, applied, ghostVars, rqVars, pureVars>>

\* useEffect on [data, scanBoxMode(, showPalletModal)] of part_012/part_014:
\* part_012 closes the pallet modal when data.success, both start the timer
\* that clears the input; the cleanup cancels the timer
Effect ==
  /\ effectDue
  /\ IF DataSuccess(data)
     THEN /\ timer' = TRUE
          /\ IF view = "part_012" /\ showPalletModal
             THEN /\ showPalletModal' = FALSE
                  /\ pendingPalletCode' = <<>>
                  /\ effectDue' = TRUE
             ELSE /\ effectDue' = FALSE
                  /\ UNCHANGED <<showPalletModal, pendingPalletCode>>
     ELSE /\ timer' = FALSE
          /\ effectDue' = FALSE
          /\ UNCHANGED <<showPalletModal, pendingPalletCode>>
  /\ UNCHANGED <<view, codigo, isProcessing, showReportModal, reportReason,
                 formSubmitQueued, modalVars, ctxVars, ghostVars, rqVars, pureVars>>

\* setTimeout(() => setCodigo(''), 1000) of the effect
TimerFires ==
  /\ Quiet
  /\ timer
  /\ timer' = FALSE
  /\ codigo' = <<>>
  /\ UNCHANGED <<view, isProcessing, showPalletModal, showReportModal,
                 pendingPalletCode, reportReason, formSubmitQueued, effectDue,
                 modalVars, ctxVars, ghostVars, rqVars, pureVars>>

\* ------------------------------------------------------------------------
\* Specification of the view with its context
\* ------------------------------------------------------------------------
RqIdle ==
  /\ rqPc = "idle" /\ rqCfg = DefaultRetries /\ rqRetries = 0
  /\ rqTrace = <<>> /\ rqDelays = <<>> /\ rqThrown = "none"
  /\ rqTimer = FALSE

\* No input of the classifier, the normalizer, the translator or the
\* simulated backend is under evaluation
PureIdle ==
  /\ clInput = <<>> /\ clResult = NoValidation
  /\ nrResponse = NoResponse /\ nrResult = NoOutcome
  /\ trError = NoError /\ trContext = "" /\ trResult = NoTranslation
  /\ mkEnv = [DEV |-> FALSE, VITE_API_URL |-> "", VITE_USE_MOCK_API |-> ""]
  /\ mkCall = [endpoint |-> "none", pc |-> "idle", kind |-> "none",
               value |-> "none"]

UiInit ==
  /\ codigo = <<>> /\ isProcessing = FALSE
  /\ showPalletModal = FALSE /\ showReportModal = FALSE
  /\ pendingPalletCode = <<>> /\ reportReason = ""
  /\ formSubmitQueued = FALSE /\ effectDue = FALSE /\ timer = FALSE
  /\ mDetails = FALSE /\ mError = FALSE /\ mFetch = 0 /\ mStarted = 0
  /\ confirms = 0 /\ palletMoves = 0 /\ palletSucceeded = FALSE

CtxInit ==
  /\ data = NoResult /\ loading = FALSE /\ error = "none"
  /\ history = <<>> /\ calls = {} /\ nextId = 1 /\ applied = 0

Init ==
  /\ view \in Views
  /\ UiInit
  /\ CtxInit
  /\ RqIdle
  /\ PureIdle

Next ==
  \/ \E c \in CodeInputs \cup {<<>>} : TypeCodigo(c)
  \/ KeyPressEnter
  \/ FormSubmit
  \/ \E ok \in BOOLEAN : DetailsArrive(ok)
  \/ RetryDetails
  \/ ModalConfirm
  \/ \E reason \in ReportReasons : ModalReportIssue(reason)
  \/ ModalClose
  \/ ReportModalClose
  \/ Reset
  \/ \E c \in calls : \E r \in ResultsOf(c) : ResolveOk(c, r)
  \/ \E c \in calls : \E t \in Thrown : ResolveFail(c, t)
  \/ Effect
  \/ TimerFires

Spec == Init /\ [][Next]_vars

\* ------------------------------------------------------------------------
\* Specification of the ScanProvider alone, driven through its context value
\* (processScan, clearHistory), one call at a time
\* ------------------------------------------------------------------------
Locations == {"BODEGA", ""}

ApiProcessScan(request) ==
  /\ calls = {}
  /\ CtxProcessScan(request, "submit", MaxHistCalls)
  /\ UNCHANGED <<view, uiVars, modalVars, ghostVars, rqVars, pureVars>>

\* clearHistory()
ClearHistory ==
  /\ history # <<>>
  /\ history' = <<>>
  /\ UNCHANGED <<view, uiVars, modalVars, data, loading, error, calls, nextId,
                 applied, ghostVars, rqVars, pureVars>>

InitHist ==
  /\ view = "part_013"
  /\ UiInit
  /\ CtxInit
  /\ RqIdle
  /\ PureIdle

NextHist ==
  \/ \E c \in {BoxCode, <<>>} : \E u \in Locations :
       ApiProcessScan([codigo |-> c, ubicacion |-> u])
  \/ \E c \in calls : \E r \in ResultsOf(c) : ResolveOk(c, r)
  \/ \E c \in calls : \E t \in Thrown : ResolveFail(c, t)
  \/ ClearHistory

SpecHist == InitHist /\ [][NextHist]_vars

\* ------------------------------------------------------------------------
\* Specification of the ScanProvider called with any request a consumer of
\* the context can pass: codes and locations of every kind, calls overlapping
\* ------------------------------------------------------------------------
\* The locations the documentation lists for boxes and for pallets
BoxLocations == {"PACKING", "BODEGA", "VENTA", "TRANSITO"}
PalletLocations == BoxLocations \cup {"PREVENTA"}
AllowedLocations(type) == IF type = "box" THEN BoxLocations ELSE PalletLocations

RequestCodes == {BoxCode, Pallet14, ShortCode, <<>>, <<" ">>}
RequestLocations == {"BODEGA", "PREVENTA", "ANDEN", "", " "}

\* processScan(request) of the context value
CtxCall(request) ==
  /\ CtxProcessScan(request, "submit", MaxCalls)
  /\ UNCHANGED <<view, uiVars, modalVars, ghostVars, rqVars, pureVars>>

\* reset() of the context value
CtxResetCall ==
  /\ CtxReset
  /\ UNCHANGED <<view, uiVars, modalVars, ghostVars, rqVars, pureVars>>

NextCtx ==
  \/ \E c \in RequestCodes : \E u \in RequestLocations :
       CtxCall([codigo |-> c, ubicacion |-> u])
  \/ CtxResetCall
  \/ \E c \in calls : \E r \in ResultsOf(c) : ResolveOk(c, r)
  \/ \E c \in calls : \E t \in Thrown : ResolveFail(c, t)
  \/ ClearHistory

SpecCtx == InitHist /\ [][NextCtx]_vars

\* ------------------------------------------------------------------------
\* Specification of the classifier: validateScannedCode applied to one input
\* ------------------------------------------------------------------------
\* code.replace(/\D/g, '')
sanitizeCode(code) == SelectSeq(code, LAMBDA ch : ch \in Digits)

\* Inputs: two runs of digits around nothing, a separator, a blank or a
\* letter, with or without blanks around them
Separators == {<<>>, <<"-">>, <<" ">>, <<"A">>}
Padding == {<<>>, <<" ">>}

ClassifierInputs ==
  {left \o Rep(a, "1") \o sep \o Rep(b, "2") \o right :
     left \in Padding, right \in Padding, sep \in Separators,
     a \in 0..MaxInputDigits, b \in 0..1}
  \cup
  {Rep(a, "1") \o sep \o Rep(MaxInputDigits - a, "2") :
     sep \in Separators, a \in 0..MaxInputDigits}

\* validateScannedCode(code)
Classify ==
  /\ clResult = NoValidation
  /\ clResult' = validateScannedCode(clInput, view)
  /\ UNCHANGED <<view, uiVars, modalVars, ctxVars, ghostVars, rqVars,
                 clInput, nrResponse, nrResult, trError, trContext, trResult,
                 mkEnv, mkCall>>

InitClassify ==
  /\ view \in Views
  /\ UiInit
  /\ CtxInit
  /\ RqIdle
  /\ clInput \in ClassifierInputs /\ clResult = NoValidation
  /\ nrResponse = NoResponse /\ nrResult = NoOutcome
  /\ trError = NoError /\ trContext = "" /\ trResult = NoTranslation
  /\ mkEnv = [DEV |-> FALSE, VITE_API_URL |-> "", VITE_USE_MOCK_API |-> ""]
  /\ mkCall = [endpoint |-> "none", pc |-> "idle", kind |-> "none",
               value |-> "none"]

NextClassify == Classify

SpecClassify == InitClassify /\ [][NextClassify]_vars

\* ------------------------------------------------------------------------
\* Specification of the normalizer: processResponse applied to one response
\* ------------------------------------------------------------------------
NormalizerInputs ==
  {r \in [ok : BOOLEAN, http : HttpStatuses,
          body : ObjectBodies \cup {TextBody, UnparseableBody}] :
     r.ok = (r.http = 200)}

\* processResponse(response)
Normalize ==
  /\ nrResult = NoOutcome
  /\ nrResult' = processResponse(nrResponse)
  /\ UNCHANGED <<view, uiVars, modalVars, ctxVars, ghostVars, rqVars,
                 clInput, clResult, nrResponse, trError, trContext, trResult,
                 mkEnv, mkCall>>

InitNorm ==
  /\ view = "part_013"
  /\ UiInit
  /\ CtxInit
  /\ RqIdle
  /\ clInput = <<>> /\ clResult = NoValidation
  /\ trError = NoError /\ trContext = "" /\ trResult = NoTranslation
  /\ mkEnv = [DEV |-> FALSE, VITE_API_URL |-> "", VITE_USE_MOCK_API |-> ""]
  /\ mkCall = [endpoint |-> "none", pc |-> "idle", kind |-> "none",
               value |-> "none"]
  /\ nrResponse \in NormalizerInputs /\ nrResult = NoOutcome

NextNorm == Normalize

SpecNorm == InitNorm /\ [][NextNorm]_vars

\* ------------------------------------------------------------------------
\* Specification of the translator: translateError applied to one error
\* ------------------------------------------------------------------------
\* translateError(error, context)
Translate ==
  /\ trResult = NoTranslation
  /\ trError # NoError
  /\ trResult' = translateError(trError, trContext)
  /\ UNCHANGED <<view, uiVars, modalVars, ctxVars, ghostVars, rqVars,
                 clInput, clResult, nrResponse, nrResult, trError, trContext,
                 mkEnv, mkCall>>

InitTranslate ==
  /\ view = "part_013"
  /\ UiInit
  /\ CtxInit
  /\ RqIdle
  /\ clInput = <<>> /\ clResult = NoValidation
  /\ nrResponse = NoResponse /\ nrResult = NoOutcome
  /\ mkEnv = [DEV |-> FALSE, VITE_API_URL |-> "", VITE_USE_MOCK_API |-> ""]
  /\ mkCall = [endpoint |-> "none", pc |-> "idle", kind |-> "none",
               value |-> "none"]
  /\ trError \in ErrorArguments
  /\ trContext \in {"", "scan", "move", "create", "dispatch", "inventory"}
  /\ trResult = NoTranslation

NextTranslate == Translate

SpecTranslate == InitTranslate /\ [][NextTranslate]_vars

\* ------------------------------------------------------------------------
\* api/endpoints.ts: postIssue, registerBox and getPalletDetails choose
\* between the simulated backend and the real one
\* ------------------------------------------------------------------------
MockEndpoints == {"postIssue", "registerBox", "getPalletDetails"}

\* import.meta.env: the build flag, the API URL and the mock switch
Environments ==
  [DEV : BOOLEAN,
   VITE_API_URL : {"", "http://localhost:3000", "https://api.example.com"},
   VITE_USE_MOCK_API : {"", "true", "false"}]

\* The simulated backend is chosen in every build
shouldUseMockMode_anyBuild(env) ==
  \/ env.VITE_API_URL = ""
  \/ env.VITE_API_URL = "http://localhost:3000"
  \/ env.VITE_USE_MOCK_API = "true"

\* import.meta.env.DEV && (!VITE_API_URL || VITE_API_URL.includes('localhost')
\* || VITE_USE_MOCK_API === 'true')
shouldUseMockMode(env) ==
  /\ env.DEV
  /\ \/ env.VITE_API_URL = ""
     \/ env.VITE_API_URL = "http://localhost:3000"
     \/ env.VITE_USE_MOCK_API = "true"

\* What apiClient.post / apiClient.get settle with: the response of the
\* backend, an ApiClientError, or any other rejection
BackendOutcomes == {"response", "ApiClientError", "rejection"}

\* try { return await apiClient... } catch (error) { if (import.meta.env.DEV)
\* return fallback; rethrow an ApiClientError, wrap anything else }
AfterRequest(env, outcome) ==
  IF outcome = "response" THEN [kind |-> "return", value |-> "response"]
  ELSE IF env.DEV THEN [kind |-> "return", value |-> "fallback"]
  ELSE IF outcome = "ApiClientError"
  THEN [kind |-> "throw", value |-> "ApiClientError"]
  ELSE [kind |-> "throw", value |-> "REQUEST_FAILED"]

\* The endpoint is called: an invalid request throws VALIDATION_ERROR, then
\* the simulated backend or the real one is chosen
MockCall(endpoint, valid) ==
  /\ mkCall.pc = "idle"
  /\ mkCall' =
       IF ~valid
       THEN [endpoint |-> endpoint, pc |-> "done", kind |-> "throw",
             value |-> "VALIDATION_ERROR"]
       ELSE IF shouldUseMockMode(mkEnv)
       THEN [endpoint |-> endpoint, pc |-> "simulating", kind |-> "none",
             value |-> "none"]
       ELSE [endpoint |-> endpoint, pc |-> "requesting", kind |-> "none",
             value |-> "none"]
  /\ UNCHANGED <<view, uiVars, modalVars, ctxVars, ghostVars, rqVars,
                 clInput, clResult, nrResponse, nrResult, trError, trContext,
                 trResult, mkEnv>>

\* await new Promise(resolve => setTimeout(resolve, 1500)); return the
\* simulated success
MockDelayElapses ==
  /\ mkCall.pc = "simulating"
  /\ mkCall' = [mkCall EXCEPT !.pc = "done", !.kind = "return",
                              !.value = "simulated"]
  /\ UNCHANGED <<view, uiVars, modalVars, ctxVars, ghostVars, rqVars,
                 clInput, clResult, nrResponse, nrResult, trError, trContext,
                 trResult, mkEnv>>

\* The request to the real backend settles
MockRequestSettles(outcome) ==
  LET r == AfterRequest(mkEnv, outcome) IN
  /\ mkCall.pc = "requesting"
  /\ mkCall' = [mkCall EXCEPT !.pc = "done", !.kind = r.kind,
                              !.value = r.value]
  /\ UNCHANGED <<view, uiVars, modalVars, ctxVars, ghostVars, rqVars,
                 clInput, clResult, nrResponse, nrResult, trError, trContext,
                 trResult, mkEnv>>

InitMock ==
  /\ view = "part_013"
  /\ UiInit
  /\ CtxInit
  /\ RqIdle
  /\ clInput = <<>> /\ clResult = NoValidation
  /\ nrResponse = NoResponse /\ nrResult = NoOutcome
  /\ trError = NoError /\ trContext = "" /\ trResult = NoTranslation
  /\ mkEnv \in Environments
  /\ mkCall = [endpoint |-> "none", pc |-> "idle", kind |-> "none",
               value |-> "none"]

NextMock ==
  \/ \E e \in MockEndpoints, valid \in BOOLEAN : MockCall(e, valid)
  \/ MockDelayElapses
  \/ \E o \in BackendOutcomes : MockRequestSettles(o)

SpecMock == InitMock /\ [][NextMock]_vars

\* ------------------------------------------------------------------------
\* apiClient: post/get over makeRequestWithRetries and fetchWithTimeout
\* ------------------------------------------------------------------------
\* What one fetch can end with: a response (any HTTP status), the abort of
\* the timeout timer, or a rejection with a TypeError whose message, which the
\* platform chooses, mentions "fetch" ("Failed to fetch") or does not
\* ("Load failed", "Network request failed")
BodyKinds == {"success", "structured_error", "plain", "unparseable", "stalled"}

Responses == {[kind |-> "response", ok |-> k, body |-> b,
               name |-> "none", mentionsFetch |-> FALSE] :
                 k \in BOOLEAN, b \in BodyKinds}

TimeoutAbort == [kind |-> "timeout", ok |-> FALSE, body |-> "none",
                 name |-> "AbortError", mentionsFetch |-> FALSE]

ConnectionFailures == {[kind |-> "netfail", ok |-> FALSE, body |-> "none",
                        name |-> "TypeError", mentionsFetch |-> m] :
                          m \in BOOLEAN}

AttemptOutcomes == Responses \cup {TimeoutAbort} \cup ConnectionFailures

\* fetchWithTimeout throws exactly when fetch rejects
FetchThrows(o) == o.kind # "response"

shouldRetry(e) == e.name = "AbortError" \/ e.mentionsFetch

\* retries <= config.retries: one retry too many
makeRequestWithRetries_offByOne(o, retries, cfgRetries) ==
  IF ~FetchThrows(o) THEN "return"
  ELSE IF retries <= cfgRetries /\ shouldRetry(o) THEN "retry"
  ELSE "throw"

\* A response with an error status is retried like a failed fetch
makeRequestWithRetries_retryHttp(o, retries, cfgRetries) ==
  IF ~FetchThrows(o)
  THEN (IF ~o.ok /\ retries < cfgRetries THEN "retry" ELSE "return")
  ELSE IF retries < cfgRetries /\ shouldRetry(o) THEN "retry"
  ELSE "throw"

\* try/catch of makeRequestWithRetries: what follows an attempt
makeRequestWithRetries(o, retries, cfgRetries) ==
  IF ~FetchThrows(o) THEN "return"
  ELSE IF retries < cfgRetries /\ shouldRetry(o) THEN "retry"
  ELSE "throw"

RECURSIVE Pow2(_)
Pow2(n) == IF n = 0 THEN 1 ELSE 2 * Pow2(n - 1)

\* The delay stops growing at four seconds
BackoffDelay_capped(retries) == Min(Pow2(retries), 4) * BackoffBaseMs

\* delay(Math.pow(2, retries) * 1000)
BackoffDelay(retries) == Pow2(retries) * BackoffBaseMs

\* What post/get settle with for the response of an attempt
SettlesWith(o) ==
  LET r == processResponse([ok |-> o.ok, http |-> (IF o.ok THEN 200 ELSE 500),
                           body |-> BodyOf(o.body)]) IN
  IF r.kind = "return" THEN "resolved"
  ELSE IF r.from = "parse" THEN "PARSE_ERROR"
  ELSE IF r.from = "http" THEN "HTTP_ERROR"
  ELSE "APP_ERROR"

\* Network attempts issued so far by the call
Attempts == Len(rqTrace) + (IF rqPc = "fetching" THEN 1 ELSE 0)

\* post(endpoint, body, config): the first attempt is issued
RqPost(cfgRetries) ==
  /\ rqPc = "idle"
  /\ rqCfg' = cfgRetries
  /\ rqPc' = "fetching"
  /\ rqRetries' = 0
  /\ rqTrace' = <<>>
  /\ rqDelays' = <<>>
  /\ rqThrown' = "none"
  /\ rqTimer' = TRUE
  /\ UNCHANGED <<view, uiVars, modalVars, ctxVars, ghostVars, pureVars>>

\* The attempt in flight settles; a rejection that is not retried reaches
\* the catch of post, which wraps it as NETWORK_ERROR
RqAttemptSettles(o) ==
  LET then == makeRequestWithRetries(o, rqRetries, rqCfg) IN
  /\ rqPc = "fetching"
  /\ o.kind = "timeout" => rqTimer
  /\ rqTrace' = Append(rqTrace, o)
  /\ rqPc' = (CASE then = "return" -> "processing"
                [] then = "retry" -> "delaying"
                [] OTHER -> "done")
  /\ rqDelays' = (IF then = "retry"
                  THEN Append(rqDelays, BackoffDelay(rqRetries))
                  ELSE rqDelays)
  /\ rqThrown' = (IF then = "throw" THEN "NETWORK_ERROR" ELSE rqThrown)
  /\ rqTimer' = FALSE
  /\ UNCHANGED <<view, uiVars, modalVars, ctxVars, ghostVars, pureVars, rqCfg,
                 rqRetries>>

\* The backoff delay elapses: makeRequestWithRetries(..., retries + 1)
RqDelayElapses ==
  /\ rqPc = "delaying"
  /\ rqRetries' = rqRetries + 1
  /\ rqPc' = "fetching"
  /\ rqTimer' = TRUE
  /\ UNCHANGED <<view, uiVars, modalVars, ctxVars, ghostVars, pureVars, rqCfg,
                 rqTrace, rqDelays, rqThrown>>

\* processResponse(response) settles the call
RqProcessResponse ==
  /\ rqPc = "processing"
  /\ rqTrace[Len(rqTrace)].body # "stalled"
  /\ rqThrown' = SettlesWith(rqTrace[Len(rqTrace)])
  /\ rqPc' = "done"
  /\ UNCHANGED <<view, uiVars, modalVars, ctxVars, ghostVars, pureVars, rqCfg,
                 rqRetries, rqTrace, rqDelays, rqTimer>>

InitReq ==
  /\ view = "part_013"
  /\ UiInit
  /\ CtxInit
  /\ RqIdle
  /\ PureIdle

NextReq ==
  \/ \E r \in 0..MaxCfgRetries : RqPost(r)
  \/ \E o \in AttemptOutcomes : RqAttemptSettles(o)
  \/ RqDelayElapses
  \/ RqProcessResponse

SpecReq == InitReq /\ [][NextReq]_vars

\* ------------------------------------------------------------------------
\* Properties of the view with its context
\* ------------------------------------------------------------------------
\* The call with this id has settled in the step
Settled(c) == \A d \in calls' : d.id # c.id

\* The calls started in the step
Started == {c \in calls' : c.id = nextId /\ nextId' = nextId + 1}

\* C1: at most one scan is in flight at any time within one ScanProvider; a
\* scan submitted while another has not resolved issues no request.
C1_AtMostOneScanInFlight == Cardinality(calls) <= 1

\* A handleSubmit step that classifies the input as a pallet
PalletScanStep ==
  /\ KeyPressEnter \/ FormSubmit
  /\ validateScannedCode(codigo, view).type = "pallet"

C4_FailureKeepsPending ==
  [][\A c \in calls :
       (HasModal(view) /\ c.origin = "confirm"
          /\ \E t \in Thrown : ResolveFail(c, t))
       => /\ history' = history
          /\ error' # "none"
          /\ pendingPalletCode' = c.codigo
          /\ showPalletModal']_vars

\* C5: after a scan resolves successfully its result is the first entry of
\* the history and no pallet is pending.
C5_SuccessAppendsHistory ==
  [][\A c \in calls : \A r \in ResultsOf(c) :
       ResolveOk(c, r)
       => /\ history' # <<>>
          /\ history'[1] = r
          /\ pendingPalletCode' = <<>>]_vars

\* C7: when a call that reset() has abandoned settles, data, error, loading
\* and history stay as they are.
C7_StaleResolutionDiscarded ==
  [][\A c \in calls :
       (c.stale /\ Settled(c)) => UNCHANGED <<data, error, loading, history>>]_vars

\* C6: the history never holds more than 20 entries, is ordered from the
\* most recent insertion to the oldest, and changes only by clearHistory or
\* by putting one new entry in front, which drops the oldest entry when the
\* history was full and leaves every kept entry as it was.
C6_HistoryBounded ==
  /\ [](/\ Len(history) <= 20
        /\ \A i, j \in 1..Len(history) :
             i < j => history[i].seq > history[j].seq)
  /\ [][\/ history' = history
        \/ history' = <<>>
        \/ /\ history' # <<>>
           /\ Tail(history') =
                (IF Len(history) < 20 THEN history
                 ELSE SubSeq(history, 1, Len(history) - 1))]_vars

\* C6 witness: the history is full and older entries have been dropped
C6_Witness ==
  /\ Len(history) = 20
  /\ history[20].seq > 1

\* ------------------------------------------------------------------------
\* Properties of the request executor
\* ------------------------------------------------------------------------
Transient(o) == o.kind \in {"timeout", "netfail"}

\* C8: one call issues at most config.retries + 1 network attempts.
C8_AttemptsBounded == Attempts <= rqCfg + 1

\* C8 witness: a call with the default configuration has used all its four
\* attempts
C8_Witness ==
  /\ rqPc = "done"
  /\ rqCfg = DefaultRetries
  /\ Attempts = DefaultRetries + 1

\* C9: every attempt that was followed by another attempt failed with a
\* timeout or a connection failure; an attempt that brought a response (an
\* application error, a body that does not parse, or anything else) is the
\* last attempt of its call.
C9_RetryOnlyTransient ==
  \A i \in 1..Len(rqTrace) :
    ~Transient(rqTrace[i]) =>
      /\ i = Len(rqTrace)
      /\ rqPc \in {"processing", "done"}

\* C9 witness: after a retried timeout the backend answered with a structured
\* error, which ended the call
C9_Witness ==
  /\ rqPc = "done"
  /\ Len(rqTrace) = 2
  /\ rqTrace[1].kind = "timeout"
  /\ rqTrace[2].body = "structured_error" /\ ~rqTrace[2].ok
  /\ rqThrown = "APP_ERROR"

\* C10: a call all of whose attempts failed at the connection level made
\* exactly config.retries retries, with increasing delays, and ended with
\* NETWORK_ERROR.
C10_ConnectionFailureRetried ==
  (/\ rqPc = "done"
   /\ \A i \in 1..Len(rqTrace) : rqTrace[i].kind = "netfail")
  => /\ Len(rqTrace) = rqCfg + 1
     /\ Len(rqDelays) = rqCfg
     /\ \A i \in 1..(Len(rqDelays) - 1) : rqDelays[i] < rqDelays[i + 1]
     /\ rqThrown = "NETWORK_ERROR"

\* C11 (as stated): the delay before attempt n, the first attempt being
\* n = 1, is 2^(n-1) seconds.  rqDelays[i] is the delay before attempt i + 1.
C11_DelayBeforeAttempt ==
  \A i \in 1..Len(rqDelays) : rqDelays[i] = Pow2(i) * 1000

\* C11 (amended): the delay before the first retry is one second and every
\* later delay is twice the one before it, so the delay before attempt n >= 2
\* is 2^(n-2) seconds; the delays are strictly increasing and are not capped.
C11_DelayDoubles ==
  \A i \in 1..Len(rqDelays) :
    /\ i = 1 => rqDelays[i] = 1000
    /\ i > 1 => rqDelays[i] = 2 * rqDelays[i - 1]

\* C11 witness: all three retries of the default configuration were made
C11_Witness ==
  /\ rqCfg = DefaultRetries
  /\ rqDelays = <<1000, 2000, 4000>>

\* C12: an attempt that has not completed, whether the response or the rest
\* of its body is awaited, has its timeout timer armed, and a call that has
\* not settled can always take a step towards settling.
C12_EveryAttemptBounded ==
  /\ rqPc \in {"fetching", "processing"} => rqTimer
  /\ rqPc \in {"fetching", "delaying", "processing"} => ENABLED NextReq

\* The attempt in flight ends because the caller cancelled it.  fetch is
\* given the signal of the controller fetchWithTimeout creates and no other,
\* and RequestConfig carries none, so AttemptOutcomes holds no such outcome
CallerCancels ==
  \E o \in AttemptOutcomes : o.kind = "cancelled" /\ RqAttemptSettles(o)

\* C13: while an attempt is in flight the caller can cancel it, and an
\* attempt ended by cancellation is the last attempt of its call.
C13_CancellationNeverRetried ==
  /\ rqPc = "fetching" => ENABLED CallerCancels
  /\ \A i \in 1..Len(rqTrace) :
       rqTrace[i].kind = "cancelled" => (i = Len(rqTrace) /\ rqPc = "done")

\* ------------------------------------------------------------------------
\* Properties of the ScanProvider under arbitrary requests
\* ------------------------------------------------------------------------
\* C14: no request is in flight for a code that the classifier rejects, and
\* the call made with such a code leaves an error and starts nothing.
C14_InvalidCodeNeverSent ==
  /\ [](\A c \in calls : validateScannedCode(c.codigo, view).isValid)
  /\ [][\A c \in RequestCodes : \A u \in RequestLocations :
          (CtxCall([codigo |-> c, ubicacion |-> u])
             /\ ~validateScannedCode(c, view).isValid)
          => (Started = {} /\ error' # "none")]_vars

\* C15: every request in flight targets a location allowed for the entity
\* type of its code.
C15_LocationAllowed ==
  \A c \in calls : c.ubicacion \in AllowedLocations(c.type)

\* ------------------------------------------------------------------------
\* Properties of the classifier
\* ------------------------------------------------------------------------
Classified == clResult # NoValidation

\* What the views send as the code of a valid input: codigo.trim()
Normalized == trim(clInput)

\* C16: an input with as many digits as a box code is a valid box, one with
\* as many digits as a pallet code is a valid pallet, a blank input or one of
\* any other length is a validation failure, and the failure for an
\* unrecognized length names the box length and the pallet length.
C16_ClassifiedByLength ==
  LET n == Len(sanitizeCode(clInput)) IN
  Classified =>
    /\ n = BoxLen => (clResult.isValid /\ clResult.type = "box")
    /\ n = PalletLen(view) => (clResult.isValid /\ clResult.type = "pallet")
    /\ trim(clInput) = <<>> => ~clResult.isValid
    /\ (n \notin {BoxLen, PalletLen(view)}) =>
         /\ ~clResult.isValid
         /\ trim(clInput) # <<>> =>
              clResult.lengthsNamed = {BoxLen, PalletLen(view)}

\* C17: an input with characters that are not digits is classified by the
\* number of its digits, and the code of every valid result consists only of
\* digits.
C17_ClassifiedOnDigitsOnly ==
  LET n == Len(sanitizeCode(clInput)) IN
  Classified =>
    /\ (~AllDigits(clInput) /\ n = BoxLen) =>
         (clResult.isValid /\ clResult.type = "box")
    /\ (~AllDigits(clInput) /\ n = PalletLen(view)) =>
         (clResult.isValid /\ clResult.type = "pallet")
    /\ clResult.isValid => AllDigits(Normalized)

\* ------------------------------------------------------------------------
\* Properties of the normalizer
\* ------------------------------------------------------------------------
ResponseProcessed == nrResult # NoOutcome

\* C18: a body with the status "success" yields an ok result with the data
\* of the body, and one with the status "fail" or "error" a failure with the
\* message and code of body.error, the message being the top-level one when
\* body.error has none; whatever legacy fields the body also has.
C18_UnifiedEnvelope ==
  LET b == nrResponse.body
      r == nrResult
  IN (ResponseProcessed /\ b.fmt = "object") =>
       /\ b.status = "success" =>
            /\ r.kind = "return" /\ r.success = "true"
            /\ r.data = (IF b.data THEN "body.data" ELSE "undefined")
       /\ b.status \in {"fail", "error"} =>
            /\ r.kind = "throw"
            /\ b.error \in {"message", "full"} => r.message = "error.message"
            /\ b.error \in {"codeonly", "full"} => r.code = "error.code"
            /\ (b.error \notin {"message", "full"} /\ b.message) =>
                 r.message = "body.message"

\* C18 witness: a body with status "success" that also says success: false
\* and carries an error object was normalized to an ok result
C18_Witness ==
  /\ nrResponse.body.status = "success"
  /\ nrResponse.body.success = "false"
  /\ nrResponse.body.error = "full"
  /\ nrResult.kind = "return"

\* C19: for a body without `status` that has a `success` field, an error
\* object or `meta`: the result is a failure when success is false or the
\* error object has a code or a message, and otherwise an ok result with the
\* data of the body.
C19_LegacyEnvelope ==
  LET b == nrResponse.body
      r == nrResult
      legacy == \/ b.success # "absent"
                \/ b.error \in {"empty", "codeonly", "message", "full"}
                \/ b.meta
      failed == \/ b.success = "false"
                \/ b.error \in {"codeonly", "message", "full"}
  IN (ResponseProcessed /\ b.fmt = "object" /\ b.status = "absent" /\ legacy) =>
       IF failed THEN r.kind = "throw"
       ELSE /\ r.kind = "return" /\ r.success = "true"
            /\ r.data = (IF b.data THEN "body.data" ELSE "undefined")

\* C20: for a response with a success status whose body is a text or a JSON
\* object with neither `status` nor any legacy field, the result is a new
\* envelope with success = true whose data is the whole body.
C20_PassthroughWrapped ==
  LET b == nrResponse.body
      r == nrResult
      unstructured ==
        \/ b.fmt = "text"
        \/ /\ b.fmt = "object" /\ b.status = "absent"
           /\ b.success = "absent" /\ ~b.meta
           /\ b.error \in {"absent", "string"}
  IN (ResponseProcessed /\ nrResponse.ok /\ unstructured) =>
       /\ r.kind = "return" /\ r.value = "envelope"
       /\ r.success = "true" /\ r.data = "body"

\* C21: a response with an error status whose body carries no structured
\* error (no status "fail" or "error", no success: false, no error object)
\* yields a failure, and for 404, 500 and 503 its message is the description
\* of the status.
C21_HttpFailureSurfaced ==
  LET b == nrResponse.body
      r == nrResult
      structuredError ==
        /\ b.fmt = "object"
        /\ \/ b.status \in {"fail", "error"}
           \/ b.success = "false"
           \/ b.error \in {"empty", "codeonly", "message", "full"}
  IN (ResponseProcessed /\ ~nrResponse.ok /\ b.fmt # "unparseable"
        /\ ~structuredError) =>
       /\ r.kind = "throw"
       /\ (nrResponse.http \in {404, 500, 503} /\ ~b.message) =>
            r.message = "status description"

\* ------------------------------------------------------------------------
\* Leaving the confirmation without confirming
\* ------------------------------------------------------------------------
\* C28: with a pallet awaiting confirmation, closing the modal and reporting
\* an issue start no request, close the modal and leave no pending pallet
\* code; reporting an issue records its reason in the same step; and while
\* no pallet is pending no pallet move request is started.
C28_CancelAndReportReturnToIdle ==
  [][HasModal(view) =>
       /\ (showPalletModal /\ pendingPalletCode # <<>>) =>
            /\ ModalClose =>
                 /\ Started = {} /\ palletMoves' = palletMoves
                 /\ pendingPalletCode' = <<>> /\ ~showPalletModal'
            /\ \A reason \in ReportReasons :
                 ModalReportIssue(reason) =>
                   /\ Started = {} /\ palletMoves' = palletMoves
                   /\ pendingPalletCode' = <<>> /\ ~showPalletModal'
                   /\ reportReason' = reason /\ showReportModal'
       /\ pendingPalletCode = <<>> =>
            \A c \in Started : c.type # "pallet"]_vars

\* C28 witness: an issue was reported for a pallet that was awaiting
\* confirmation; its reason is recorded, nothing is pending and no move
\* request was made
C28_Witness ==
  /\ HasModal(view)
  /\ showReportModal /\ reportReason \in ReportReasons
  /\ pendingPalletCode = <<>> /\ ~showPalletModal
  /\ confirms = 0 /\ palletMoves = 0
  /\ \A c \in calls : c.type # "pallet"

\* ------------------------------------------------------------------------
\* Invariants of the ScanProvider state
\* ------------------------------------------------------------------------
\* C29: whenever an error is set, data is null.
C29_DataErrorExclusive == error # "none" => data = NoResult

\* C30: loading is true exactly while a started submitScan call is
\* unresolved.
C30_LoadingWhileInFlight == loading <=> (calls # {})

\* The translator has returned or thrown for the error under evaluation
Translated == trResult # NoTranslation

C23_BackendSuggestionWins ==
  (Translated /\ trResult.kind = "return") =>
    /\ trError.suggestionAt # "none" =>
         trResult.suggestion = [from |-> "backend", key |-> "suggestion"]
    /\ trError.suggestionAt = "none" =>
         trResult.suggestion.from \notin {"backend", "none"}

\* C23 witness: a unified error object with error.suggestion was translated
\* by an entry of the context table, which has a suggestion of its own
C23_Witness ==
  /\ trError.form = "unified"
  /\ trError.suggestionAt = "error.suggestion"
  /\ trResult.kind = "return"
  /\ trResult.rule = 1
  /\ trResult.suggestion = [from |-> "backend", key |-> "suggestion"]

\* C24 (as stated): the error of a unified envelope with code BOX_NOT_FOUND,
\* translated in context "scan", has the message "Codigo no encontrado" and
\* the suggestion of that entry, and the response that brought it is not
\* retried.
C24_BoxNotFoundInScan ==
  (/\ Translated
   /\ trError.form = "Error"
   /\ trError.code = "BOX_NOT_FOUND"
   /\ trError.message # ""
   /\ trError.suggestionAt = "none"
   /\ trContext = "scan")
  => /\ trResult.kind = "return"
     /\ trResult.message = "Codigo no encontrado"
     /\ trResult.suggestion = EntrySuggestion("scan", "NOT_FOUND")
     /\ \A ok \in BOOLEAN, r \in 0..MaxCfgRetries, c \in 0..MaxCfgRetries :
          makeRequestWithRetries(
            [kind |-> "response", ok |-> ok, body |-> "structured_error",
             name |-> "none", mentionsFetch |-> FALSE], r, c) = "return"

\* C25: for every error argument and every context translateError returns,
\* and the message it returns is not empty.
C25_TranslateTotal ==
  Translated => (trResult.kind = "return" /\ trResult.message # "")

\* C26: the message translateError returns names no backend exception and no
\* frame of a stack trace.
C26_NoTechnicalDetailsShown ==
  (Translated /\ trResult.kind = "return") =>
    trResult.message \notin
      {"NullPointerException at Handler.java:42",
       "Error: NullPointerException at Handler.java:42",
       "ResourceNotFoundException: Requested resource not found",
       "Error: ResourceNotFoundException: Requested resource not found"}

\* C27: in a build whose development flag is false, whatever the API URL and
\* the mock switch, an endpoint never waits for the simulated backend, and it
\* ends by returning the response of the real backend or by throwing.
C27_NoSimulationOutsideDevelopment ==
  ~mkEnv.DEV =>
    /\ mkCall.pc # "simulating"
    /\ mkCall.pc = "done" =>
         \/ mkCall.kind = "throw"
         \/ mkCall.kind = "return" /\ mkCall.value = "response"

\* C27 witness: with a localhost URL and the mock switch on, a build that is
\* not a development build asked the real backend, whose failure was thrown
C27_Witness ==
  /\ ~mkEnv.DEV
  /\ mkEnv.VITE_API_URL = "http://localhost:3000"
  /\ mkEnv.VITE_USE_MOCK_API = "true"
  /\ mkCall.pc = "done"
  /\ mkCall.kind = "throw"
  /\ mkCall.value = "REQUEST_FAILED"

====
